---- MODULE Spec2Model ----
(***************************************************************************)
(* MindSpace: the dual-backend storage layer (StorageService) of           *)
(* src/services/storage_service.py, with the callers in src/app.py and     *)
(* src/components that create the remote user document and the entries.    *)
(*                                                                         *)
(* One user.  The remote store holds at most one document for the user     *)
(* (collection 'users'); the local store holds at most one file            *)
(* data/user_<id>.json.  An entry of a history list is a record            *)
(*   n      : the serial of the call that created it (its payload)         *)
(*   id     : its 'id' field, 0 when the entry has none                    *)
(*   status : 'status' of a task ("pending"/"completed"), "none" otherwise *)
(*   tsk    : how its 'timestamp' is represented: "none" (no such key),    *)
(*            "iso" (an ISO string), "dt" (a native datetime, as           *)
(*            Firestore keeps it), "str" (str(datetime), what json.dump    *)
(*            with default=str writes for a native datetime)               *)
(***************************************************************************)
EXTENDS Integers, Sequences, FiniteSets, TLC

VARIABLES remote, local, up, nextId, last,
          now, otpRemote, otpLocal, otpLast, issued, verified, issue,
          pc, req, buf, acked,
          heal, tie,
          rprofile, lprofile, plast,
          snap,
          fnow, frec, fout

vars == <<remote, local, up, nextId, last,
          now, otpRemote, otpLocal, otpLast, issued, verified, issue,
          pc, req, buf, acked,
          heal, tie,
          rprofile, lprofile, plast,
          snap,
          fnow, frec, fout>>

otpVars == <<now, otpRemote, otpLocal, otpLast, issued, verified, issue>>
concVars == <<pc, req, buf, acked>>
healVars == <<heal, tie>>
profVars == <<rprofile, lprofile, plast>>
filtVars == <<fnow, frec, fout>>
extVars == <<healVars, profVars, snap, filtVars>>

(* ------------------------------ bounds -------------------------------- *)

\* number of entries the callers create in one behaviour
MaxId == 2

\* the clock stops at this minute
MaxTime == 11

\* number of send_otp calls in one behaviour
MaxSends == 2

(* --------------------------- data helpers ----------------------------- *)

Range(s) == {s[i] : i \in 1..Len(s)}

\* dict.get(k, []) on a document
Get(d, k) == IF k \in DOMAIN d THEN d[k] ELSE <<>>

\* d[k] = v on a document (the key is created when missing)
Put(d, k, v) == [x \in (DOMAIN d) \cup {k} |-> IF x = k THEN v ELSE d[x]]

\* the history lists sync_user_data walks, in its order
SyncTypes == <<"mood_history", "focus_history", "task_history", "chat_history">>

NoEntry == [n |-> 0, id |-> 0, status |-> "none", tsk |-> "none"]

NoDoc == [exists |-> FALSE, lists |-> [k \in {} |-> <<>>]]

\* json.dump(data, f, indent=2, default=str): a native datetime is written as
\* str(datetime); every other value is written as it is
SerEntry(e) == IF e.tsk = "dt" THEN [e EXCEPT !.tsk = "str"] ELSE e

SerList(s) == [i \in 1..Len(s) |-> SerEntry(s[i])]

\* the record _load_local_data returns when the user has no file
DefaultLocal ==
  [k \in {"mood_history", "focus_history", "task_history", "chat_history"} |-> <<>>]

load_local_data(file) == IF file.exists THEN file.lists ELSE DefaultLocal

save_local_data(data) ==
  [exists |-> TRUE, lists |-> [k \in DOMAIN data |-> SerList(data[k])]]

\* firestore.ArrayUnion([e]): e is added unless an equal element is there
ArrayUnionOverwrite(list, e) == <<e>>

ArrayUnion(list, e) == IF e \in Range(list) THEN list ELSE Append(list, e)

(* ----------------------- remote document creation --------------------- *)

\* the document handle_signup sets
SignupDoc ==
  [exists |-> TRUE,
   lists |-> [k \in {"mood_history", "focus_history", "task_history", "schedules"} |-> <<>>]]

(* ------------------------------ saves --------------------------------- *)

\* the entry each save operation stores on each path
MoodEntry(n, hasId, path) ==
  [n |-> n, id |-> IF hasId THEN n ELSE 0, status |-> "none",
   tsk |-> IF path = "remote" THEN "dt" ELSE "iso"]

TaskEntry(n) == [n |-> n, id |-> n, status |-> "pending", tsk |-> "iso"]

FocusEntry(n) == [n |-> n, id |-> 0, status |-> "none", tsk |-> "none"]

ScheduleEntry(n) == [n |-> n, id |-> 0, status |-> "none", tsk |-> "none"]

\* doc_ref.update({k: firestore.ArrayUnion([e])}); update raises NotFound when
\* the document does not exist, and raises when the call fails (fail)
RemoteAppendApplied(doc, k, e, fail) ==
  IF ~doc.exists
  THEN [ok |-> FALSE, doc |-> doc]
  ELSE [ok |-> ~fail, doc |-> [doc EXCEPT !.lists = Put(doc.lists, k, ArrayUnion(Get(doc.lists, k), e))]]

RemoteAppend(doc, k, e, fail) ==
  IF fail \/ ~doc.exists
  THEN [ok |-> FALSE, doc |-> doc]
  ELSE [ok |-> TRUE, doc |-> [doc EXCEPT !.lists = Put(doc.lists, k, ArrayUnion(Get(doc.lists, k), e))]]

\* data = _load_local_data(); data[k].append(e); _save_local_data(data).
\* save_schedule creates the key when it is missing (create), the other
\* operations index it and raise KeyError
LocalAppendDrop(file, k, e, create) ==
  [ok |-> TRUE, file |-> save_local_data(load_local_data(file))]

LocalAppend(file, k, e, create) ==
  LET data == load_local_data(file)
  IN IF k \notin DOMAIN data /\ ~create
     THEN [ok |-> FALSE, file |-> file]
     ELSE [ok |-> TRUE, file |-> save_local_data(Put(data, k, Append(Get(data, k), e)))]

\* the body shared by save_mood_entry, save_task_entry, save_focus_entry and
\* save_schedule: probe, then the remote append or the local append; any
\* exception is caught and the operation returns False
save_entry_sticky(doc, file, avail, fail, k, er, el, create) ==
  IF avail /\ ~file.exists
  THEN LET r == RemoteAppend(doc, k, er, fail)
       IN [res |-> r.ok, path |-> "remote", remote |-> r.doc, local |-> file]
  ELSE LET l == LocalAppend(file, k, el, create)
       IN [res |-> l.ok, path |-> "local", remote |-> doc, local |-> l.file]

save_entry(doc, file, avail, fail, k, er, el, create) ==
  IF avail
  THEN LET r == RemoteAppend(doc, k, er, fail)
       IN [res |-> r.ok, path |-> "remote", remote |-> r.doc, local |-> file]
  ELSE LET l == LocalAppend(file, k, el, create)
       IN [res |-> l.ok, path |-> "local", remote |-> doc, local |-> l.file]

(* ---------------------------- task update ----------------------------- *)

\* [t if t.get('id') != task['id'] else task for t in tasks]
replace_task_by_status(tasks, task) ==
  [i \in 1..Len(tasks) |-> IF tasks[i].status # task.status THEN task ELSE tasks[i]]

replace_task(tasks, task) ==
  [i \in 1..Len(tasks) |-> IF tasks[i].id # task.id THEN tasks[i] ELSE task]

\* [t for t in tasks if t.get('id') != task['id']]
remove_task_in_view(tasks, task) ==
  SelectSeq(tasks, LAMBDA t : t.id # task.id /\ t.status = task.status)

remove_task(tasks, task) == SelectSeq(tasks, LAMBDA t : t.id # task.id)

\* update_task_status: on the remote the list is read, rewritten and written
\* back when the document exists (doc_ref.update of the whole list); locally
\* data['task_history'] is indexed (KeyError when the key is missing)
update_task_status(doc, file, avail, fail, task) ==
  IF avail
  THEN IF fail
       THEN [res |-> FALSE, path |-> "remote", remote |-> doc, local |-> file]
       ELSE IF doc.exists
            THEN [res |-> TRUE, path |-> "remote",
                  remote |-> [doc EXCEPT !.lists =
                    Put(doc.lists, "task_history", replace_task(Get(doc.lists, "task_history"), task))],
                  local |-> file]
            ELSE [res |-> TRUE, path |-> "remote", remote |-> doc, local |-> file]
  ELSE LET data == load_local_data(file)
       IN IF "task_history" \notin DOMAIN data
          THEN [res |-> FALSE, path |-> "local", remote |-> doc, local |-> file]
          ELSE [res |-> TRUE, path |-> "local", remote |-> doc,
                local |-> save_local_data(
                  Put(data, "task_history", replace_task(data["task_history"], task)))]

\* delete_task: the same shape, with the entry filtered out
delete_task(doc, file, avail, fail, task) ==
  IF avail
  THEN IF fail
       THEN [res |-> FALSE, path |-> "remote", remote |-> doc, local |-> file]
       ELSE IF doc.exists
            THEN [res |-> TRUE, path |-> "remote",
                  remote |-> [doc EXCEPT !.lists =
                    Put(doc.lists, "task_history", remove_task(Get(doc.lists, "task_history"), task))],
                  local |-> file]
            ELSE [res |-> TRUE, path |-> "remote", remote |-> doc, local |-> file]
  ELSE LET data == load_local_data(file)
       IN IF "task_history" \notin DOMAIN data
          THEN [res |-> FALSE, path |-> "local", remote |-> doc, local |-> file]
          ELSE [res |-> TRUE, path |-> "local", remote |-> doc,
                local |-> save_local_data(
                  Put(data, "task_history", remove_task(data["task_history"], task)))]

(* ------------------------------- sync --------------------------------- *)

\* {entry.get('id') for entry in entries if entry.get('id')}
entry_ids_none(entries) == {}

entry_ids(entries) == {entries[i].id : i \in {j \in 1..Len(entries) : entries[j].id # 0}}

\* [entry for entry in local_entries
\*  if entry.get('id') and entry.get('id') not in firestore_ids]
new_entries_all(local_entries, firestore_entries) ==
  SelectSeq(local_entries, LAMBDA e : e.id # 0)

new_entries_any(local_entries, firestore_entries) ==
  SelectSeq(local_entries, LAMBDA e : e.id \notin entry_ids(firestore_entries))

new_entries_by_content(local_entries, firestore_entries) ==
  SelectSeq(local_entries, LAMBDA e : e.id # 0 /\ e \notin Range(firestore_entries))

new_entries(local_entries, firestore_entries) ==
  SelectSeq(local_entries, LAMBDA e : e.id # 0 /\ e.id \notin entry_ids(firestore_entries))

\* merged_data[history_type] = firestore_entries + new_entries
merge_entries_front(firestore_entries, new) == new \o firestore_entries

merge_entries(firestore_entries, new) == firestore_entries \o new

\* the loop of sync_user_data over the history types, from the i-th on.
\* st.merged is merged_data, st.remote the remote document's lists, st.calls
\* the number of remote calls made so far (the get is the first), st.failed
\* whether a remote call raised; the failAt-th remote call raises
RECURSIVE sync_loop(_, _, _, _, _)
sync_loop(i, local_data, firestore_data, st, failAt) ==
  IF i > Len(SyncTypes) \/ st.failed
  THEN st
  ELSE LET k == SyncTypes[i]
           firestore_entries == Get(firestore_data, k)
           new == new_entries(Get(local_data, k), firestore_entries)
           merged == merge_entries(firestore_entries, new)
       IN IF new = <<>>
          THEN sync_loop(i + 1, local_data, firestore_data, st, failAt)
          ELSE IF st.calls + 1 = failAt
               THEN [st EXCEPT !.failed = TRUE, !.calls = @ + 1]
               ELSE sync_loop(i + 1, local_data, firestore_data,
                      [merged |-> Put(st.merged, k, merged),
                       remote |-> Put(st.remote, k, merged),
                       calls |-> st.calls + 1, failed |-> FALSE, pushed |-> TRUE],
                      failAt)

\* sync_user_data: out is "unavailable" (probe false), "nodoc" (no remote
\* document), "error" (a remote call raised), all three returning False, or
\* "synced" (the merge ran and the local file was overwritten), returning True.
\* failAt one past the last remote call is _save_local_data raising (or the
\* process stopping) after the remote updates: "error", the local file kept
sync_user_data_true_if_merged(doc, file, avail, failAt) ==
  IF ~avail
  THEN [res |-> FALSE, out |-> "unavailable", pushed |-> FALSE, remote |-> doc, local |-> file]
  ELSE IF failAt = 1
  THEN [res |-> FALSE, out |-> "error", pushed |-> FALSE, remote |-> doc, local |-> file]
  ELSE IF ~doc.exists
  THEN [res |-> FALSE, out |-> "nodoc", pushed |-> FALSE, remote |-> doc, local |-> file]
  ELSE LET st == sync_loop(1, load_local_data(file), doc.lists,
                   [merged |-> doc.lists, remote |-> doc.lists, calls |-> 1,
                    failed |-> FALSE, pushed |-> FALSE],
                   failAt)
       IN IF st.failed \/ failAt = st.calls + 1
          THEN [res |-> FALSE, out |-> "error", pushed |-> st.pushed,
                remote |-> [doc EXCEPT !.lists = st.remote], local |-> file]
          ELSE [res |-> st.pushed, out |-> "synced", pushed |-> st.pushed,
                remote |-> [doc EXCEPT !.lists = st.remote],
                local |-> save_local_data(st.merged)]

sync_user_data(doc, file, avail, failAt) ==
  IF ~avail
  THEN [res |-> FALSE, out |-> "unavailable", pushed |-> FALSE, remote |-> doc, local |-> file]
  ELSE IF failAt = 1
  THEN [res |-> FALSE, out |-> "error", pushed |-> FALSE, remote |-> doc, local |-> file]
  ELSE IF ~doc.exists
  THEN [res |-> FALSE, out |-> "nodoc", pushed |-> FALSE, remote |-> doc, local |-> file]
  ELSE LET st == sync_loop(1, load_local_data(file), doc.lists,
                   [merged |-> doc.lists, remote |-> doc.lists, calls |-> 1,
                    failed |-> FALSE, pushed |-> FALSE],
                   failAt)
       IN IF st.failed \/ failAt = st.calls + 1
          THEN [res |-> FALSE, out |-> "error", pushed |-> st.pushed,
                remote |-> [doc EXCEPT !.lists = st.remote], local |-> file]
          ELSE [res |-> TRUE, out |-> "synced", pushed |-> st.pushed,
                remote |-> [doc EXCEPT !.lists = st.remote],
                local |-> save_local_data(st.merged)]

(* ------------------------------- reads -------------------------------- *)

\* get_user_history without filter: the remote document when the probe
\* succeeds and the document exists, the local record when the document is
\* missing, the remote is down or the get raises (fail)
get_user_history(doc, file, avail, fail) ==
  IF avail /\ ~fail /\ doc.exists THEN doc.lists ELSE load_local_data(file)

(* ----------------------- state and operations -------------------------- *)

\* whether a remote call of the operation raises: only a reachable remote is called
Fails == IF up THEN BOOLEAN ELSE {FALSE}

SaveOps == {"save_mood_entry", "save_task_entry", "save_focus_entry", "save_schedule"}

NoLast ==
  [op |-> "init", k |-> "none", entry |-> NoEntry, avail |-> FALSE, failed |-> FALSE,
   res |-> FALSE, out |-> "none", pushed |-> FALSE, again |-> FALSE]

StoreInit ==
  /\ remote = NoDoc
  /\ local = NoDoc
  /\ up \in BOOLEAN
  /\ nextId = 1
  /\ last = NoLast

\* what every operation records: its name and inputs, what the probe saw,
\* whether a remote call raised, its result, and (again) whether the operation
\* before it was a sync_user_data that ran to its end and pushed entries
Record(op, k, entry, failed, res, out, pushed) ==
  last' = [op |-> op, k |-> k, entry |-> entry, avail |-> up, failed |-> failed,
           res |-> res, out |-> out, pushed |-> pushed,
           again |-> (last.op = "sync_user_data" /\ last.out = "synced" /\ last.pushed)]

\* the remote store becomes reachable or unreachable (what the probe
\* is_firestore_available sees); nothing is remembered of it
SetAvailability ==
  /\ up' = ~up
  /\ last' = [NoLast EXCEPT !.op = "set_availability"]
  /\ UNCHANGED <<remote, local, nextId>>

\* handle_signup: the account is created once, then its document is set
HandleSignup ==
  /\ ~remote.exists
  /\ \E fail \in Fails :
       /\ remote' = IF up /\ ~fail THEN SignupDoc ELSE remote
       /\ Record("handle_signup", "none", NoEntry, fail, up /\ ~fail, "remote", FALSE)
  /\ UNCHANGED <<local, up, nextId>>

Save(op, k, er, el, create) ==
  /\ nextId <= MaxId
  /\ \E fail \in Fails :
       LET r == save_entry(remote, local, up, fail, k, er, el, create)
       IN /\ remote' = r.remote
          /\ local' = r.local
          /\ Record(op, k, IF r.path = "remote" THEN er ELSE el, up /\ ~r.res, r.res, r.path, FALSE)
  /\ nextId' = nextId + 1
  /\ UNCHANGED up

SaveMoodEntry ==
  \E hasId \in BOOLEAN :
    Save("save_mood_entry", "mood_history",
         MoodEntry(nextId, hasId, "remote"), MoodEntry(nextId, hasId, "local"), FALSE)

SaveTaskEntry ==
  Save("save_task_entry", "task_history", TaskEntry(nextId), TaskEntry(nextId), FALSE)

SaveFocusEntry ==
  Save("save_focus_entry", "focus_history", FocusEntry(nextId), FocusEntry(nextId), FALSE)

SaveSchedule ==
  Save("save_schedule", "schedules", ScheduleEntry(nextId), ScheduleEntry(nextId), TRUE)

\* the tasks the task page shows, from either store
ShownTasks ==
  Range(Get(remote.lists, "task_history")) \cup Range(Get(load_local_data(local), "task_history"))

\* filtered_tasks of the task page: [t for t in tasks if t['status'].lower()
\* == status_filter.lower()], all the tasks with the filter "All"
FilteredTasks(tasks, status_filter) ==
  IF status_filter = "All" THEN tasks
  ELSE SelectSeq(tasks, LAMBDA t : t.status = status_filter)

Toggled(t) ==
  [t EXCEPT !.status = IF t.status = "pending" THEN "completed" ELSE "pending"]

UpdateTaskStatus ==
  /\ \E t \in ShownTasks, fail \in Fails :
       LET task == Toggled(t)
           r == update_task_status(remote, local, up, fail, task)
       IN /\ remote' = r.remote
          /\ local' = r.local
          /\ Record("update_task_status", "task_history", task, up /\ fail, r.res, r.path, FALSE)
  /\ UNCHANGED <<up, nextId>>

DeleteTask ==
  /\ \E task \in ShownTasks, fail \in Fails :
       LET r == delete_task(remote, local, up, fail, task)
       IN /\ remote' = r.remote
          /\ local' = r.local
          /\ Record("delete_task", "task_history", task, up /\ fail, r.res, r.path, FALSE)
  /\ UNCHANGED <<up, nextId>>

\* the remote calls this sync_user_data makes when none raises: the get, and
\* one update per history type that has entries to push
SyncCalls ==
  IF ~up THEN 0
  ELSE IF ~remote.exists THEN 1
  ELSE 1 + Cardinality({i \in 1..Len(SyncTypes) :
             new_entries(Get(load_local_data(local), SyncTypes[i]),
                         Get(remote.lists, SyncTypes[i])) # <<>>})

SyncUserData ==
  /\ \E failAt \in 0..SyncCalls :
       LET r == sync_user_data(remote, local, up, failAt)
       IN /\ remote' = r.remote
          /\ local' = r.local
          /\ Record("sync_user_data", "none", NoEntry, r.out = "error", r.res, r.out, r.pushed)
  /\ UNCHANGED <<up, nextId>>

(* ------------------------------- logout ------------------------------- *)

\* st.session_state.local_mood_history, local_focus_history and
\* local_task_history: set to [] when missing, and appended to nowhere
SessionLists ==
  [k \in {"mood_history", "focus_history", "task_history"} |-> <<>>]

\* st.session_state.get('chat_history', []): empty, or what the mood page
\* has appended in this session
SessionChats == {<<>>, <<[n |-> 0, id |-> 0, status |-> "none", tsk |-> "iso"]>>}

\* handle_logout: doc_ref.update({'chat_history': ..., 'mood_history': ...,
\* 'focus_history': ..., 'task_history': ...}) with the session's lists; the
\* update replaces the four fields and raises when the remote is down, the
\* call fails or there is no document (the exception is caught)
handle_logout(doc, reachable, fail, chat) ==
  IF ~reachable \/ fail \/ ~doc.exists
  THEN [ok |-> FALSE, doc |-> doc]
  ELSE [ok |-> TRUE,
        doc |-> [doc EXCEPT !.lists =
                   [k \in (DOMAIN doc.lists) \cup {"chat_history"} \cup DOMAIN SessionLists |->
                      IF k = "chat_history" THEN chat
                      ELSE IF k \in DOMAIN SessionLists THEN SessionLists[k]
                      ELSE doc.lists[k]]]]

HandleLogout ==
  /\ \E fail \in Fails, chat \in SessionChats :
       LET r == handle_logout(remote, up, fail, chat)
       IN /\ remote' = r.doc
          /\ Record("handle_logout", "none", NoEntry, up /\ fail, r.ok, "remote", FALSE)
  /\ UNCHANGED <<local, up, nextId>>

(* -------------------------------- OTP --------------------------------- *)

\* the codes send_otp draws (six digits in the program)
Codes == {"111111", "222222"}

\* timedelta(minutes=10)
OtpTtl == 10

\* the document otps/<email>; the field 'attempts' is written as 0 and never read
NoOtpDoc == [exists |-> FALSE, otp |-> "none", expires_at |-> 0]

\* the file data/user_otp_<email>.json: absent, holding null (what
\* _save_local_data(.., None) writes) or holding a challenge
NoOtpFile == [kind |-> "absent", otp |-> "none", expires_at |-> 0]

NullOtpFile == [kind |-> "null", otp |-> "none", expires_at |-> 0]

\* otp_data of send_otp
otp_data(code, t) == [otp |-> code, expires_at |-> t + OtpTtl]

\* send_otp up to the e-mail: the challenge is set on the remote when the
\* probe succeeds and the set does not raise, and written to the local file
\* otherwise
send_otp(doc, file, avail, fail, code, t) ==
  LET d == otp_data(code, t)
  IN IF avail /\ ~fail
     THEN [remote |-> [exists |-> TRUE, otp |-> d.otp, expires_at |-> d.expires_at],
           local |-> file, stored |-> "remote"]
     ELSE [remote |-> doc,
           local |-> [kind |-> "data", otp |-> d.otp, expires_at |-> d.expires_at],
           stored |-> "local"]

\* datetime.now(timezone.utc) > expires_at
expired(t, expires_at) == t > expires_at

\* otp_ref.delete()
delete_otp_doc_keep(doc) == doc

delete_otp_doc(doc) == NoOtpDoc

\* _save_local_data(f"otp_{email}", None)
clear_otp_file(file) == NullOtpFile

\* the local part of verify_otp.  _load_local_data gives the default record
\* when there is no file (it has no 'expires_at': KeyError, caught, False) and
\* None when the file holds null
verify_local(doc, file, code, t) ==
  IF file.kind # "data"
  THEN [res |-> FALSE, remote |-> doc, local |-> file]
  ELSE IF expired(t, file.expires_at)
  THEN [res |-> FALSE, remote |-> doc, local |-> file]
  ELSE IF file.otp = code
  THEN [res |-> TRUE, remote |-> doc, local |-> clear_otp_file(file)]
  ELSE [res |-> FALSE, remote |-> doc, local |-> file]

\* verify_otp: the remote challenge first when the probe succeeds; an
\* exception of the get (failAt = "get") or of the delete (failAt = "delete")
\* and a missing remote challenge lead to the local part
verify_otp(doc, file, avail, failAt, code, t) ==
  IF avail /\ failAt # "get" /\ doc.exists
  THEN IF expired(t, doc.expires_at)
       THEN [res |-> FALSE, remote |-> doc, local |-> file]
       ELSE IF doc.otp = code
       THEN IF failAt = "delete"
            THEN verify_local(doc, file, code, t)
            ELSE [res |-> TRUE, remote |-> delete_otp_doc(doc), local |-> file]
       ELSE [res |-> FALSE, remote |-> doc, local |-> file]
  ELSE verify_local(doc, file, code, t)

NoOtpLast ==
  [op |-> "init", code |-> "none", res |-> FALSE, avail |-> FALSE, failAt |-> "none"]

\* issue is the latest challenge send_otp stored (its code, the minute of the
\* call, whether a verify_otp with that code has succeeded since); issued and
\* verified count, per code, the challenges stored and the successful
\* verifications
OtpInit ==
  /\ now = 0
  /\ otpRemote = NoOtpDoc
  /\ otpLocal = NoOtpFile
  /\ otpLast = NoOtpLast
  /\ issued = [c \in Codes |-> 0]
  /\ verified = [c \in Codes |-> 0]
  /\ issue = [sent |-> FALSE, code |-> "none", at |-> 0, used |-> FALSE]

\* the number of challenges stored so far with a code of S
RECURSIVE Sends(_)
Sends(S) ==
  IF S = {} THEN 0
  ELSE LET c == CHOOSE x \in S : TRUE IN issued[c] + Sends(S \ {c})

Tick ==
  /\ now < MaxTime
  /\ now' = now + 1
  /\ UNCHANGED <<otpRemote, otpLocal, otpLast, issued, verified, issue, up>>

OtpSetAvailability ==
  /\ up' = ~up
  /\ UNCHANGED <<now, otpRemote, otpLocal, otpLast, issued, verified, issue>>

SendOtp ==
  /\ Sends(Codes) < MaxSends
  /\ \E code \in Codes, fail \in Fails, mailOk \in BOOLEAN :
       LET r == send_otp(otpRemote, otpLocal, up, fail, code, now)
       IN /\ otpRemote' = r.remote
          /\ otpLocal' = r.local
          /\ issued' = [issued EXCEPT ![code] = @ + 1]
          /\ issue' = [sent |-> TRUE, code |-> code, at |-> now, used |-> FALSE]
          /\ otpLast' = [op |-> "send_otp", code |-> code, res |-> mailOk, avail |-> up,
                         failAt |-> IF fail THEN "set" ELSE "none"]
  /\ UNCHANGED <<now, verified, up>>

VerifyOtp ==
  /\ \E code \in Codes, failAt \in (IF up THEN {"none", "get", "delete"} ELSE {"none"}) :
       LET r == verify_otp(otpRemote, otpLocal, up, failAt, code, now)
       IN /\ otpRemote' = r.remote
          /\ otpLocal' = r.local
          /\ verified' = IF r.res THEN [verified EXCEPT ![code] = @ + 1] ELSE verified
          /\ issue' = IF r.res /\ issue.code = code THEN [issue EXCEPT !.used = TRUE] ELSE issue
          /\ otpLast' = [op |-> "verify_otp", code |-> code, res |-> r.res, avail |-> up,
                         failAt |-> failAt]
  /\ UNCHANGED <<now, issued, up>>

(* ------------------------ concurrent sessions ------------------------- *)

\* two sessions of the same user (two devices or browser tabs); each runs its
\* save operations one remote or file call at a time
Sessions == {"s1", "s2"}

NoReq == [op |-> "none", k |-> "none", er |-> NoEntry, el |-> NoEntry, create |-> FALSE]

\* pc[s] is where session s is in its save operation, req[s] the operation,
\* buf[s] the record its _load_local_data returned; acked holds the entries
\* whose remote append returned, with the session and whether the other
\* session was then between its probe and its append
ConcInit ==
  /\ pc = [s \in Sessions |-> "idle"]
  /\ req = [s \in Sessions |-> NoReq]
  /\ buf = [s \in Sessions |-> DefaultLocal]
  /\ acked = {}

Requests(n) ==
  {[op |-> "save_mood_entry", k |-> "mood_history", er |-> MoodEntry(n, h, "remote"),
    el |-> MoodEntry(n, h, "local"), create |-> FALSE] : h \in BOOLEAN}
  \cup {[op |-> "save_task_entry", k |-> "task_history", er |-> TaskEntry(n),
         el |-> TaskEntry(n), create |-> FALSE],
        [op |-> "save_focus_entry", k |-> "focus_history", er |-> FocusEntry(n),
         el |-> FocusEntry(n), create |-> FALSE],
        [op |-> "save_schedule", k |-> "schedules", er |-> ScheduleEntry(n),
         el |-> ScheduleEntry(n), create |-> TRUE]}

\* a session calls a save operation
CStart(s) ==
  /\ pc[s] = "idle"
  /\ nextId <= MaxId
  /\ \E r \in Requests(nextId) : req' = [req EXCEPT ![s] = r]
  /\ pc' = [pc EXCEPT ![s] = "probe"]
  /\ nextId' = nextId + 1
  /\ UNCHANGED <<remote, local, up, buf, acked>>

\* is_firestore_available()
CProbe(s) ==
  /\ pc[s] = "probe"
  /\ pc' = [pc EXCEPT ![s] = IF up THEN "remote" ELSE "load"]
  /\ UNCHANGED <<remote, local, up, nextId, req, buf, acked>>

\* doc_ref.update({k: ArrayUnion([entry])}): one call, applied by the
\* remote store in one step; it raises when the remote has gone down
CRemoteAppend(s) ==
  /\ pc[s] = "remote"
  /\ \E fail \in (IF up THEN BOOLEAN ELSE {TRUE}) :
       LET r == RemoteAppend(remote, req[s].k, req[s].er, fail)
       IN /\ remote' = r.doc
          /\ acked' = IF r.ok
                      THEN acked \cup {[s |-> s, k |-> req[s].k, e |-> req[s].er,
                                        overlap |-> \E o \in Sessions \ {s} :
                                                      pc[o] = "remote" /\ req[o].k = req[s].k]}
                      ELSE acked
  /\ pc' = [pc EXCEPT ![s] = "idle"]
  /\ UNCHANGED <<local, up, nextId, req, buf>>

\* data = self._load_local_data(user_id), and the indexing of data[k]
CLocalLoad(s) ==
  /\ pc[s] = "load"
  /\ LET data == load_local_data(local)
     IN /\ buf' = [buf EXCEPT ![s] = data]
        /\ pc' = [pc EXCEPT ![s] =
                    IF req[s].k \notin DOMAIN data /\ ~req[s].create THEN "idle" ELSE "write"]
  /\ UNCHANGED <<remote, local, up, nextId, req, acked>>

\* data[k].append(entry); self._save_local_data(user_id, data)
CLocalWrite(s) ==
  /\ pc[s] = "write"
  /\ local' = save_local_data(Put(buf[s], req[s].k, Append(Get(buf[s], req[s].k), req[s].el)))
  /\ pc' = [pc EXCEPT ![s] = "idle"]
  /\ UNCHANGED <<remote, up, nextId, req, buf, acked>>

CSetAvailability ==
  /\ up' = ~up
  /\ UNCHANGED <<remote, local, nextId, pc, req, buf, acked>>

CHandleSignup ==
  /\ ~remote.exists
  /\ up
  /\ remote' = SignupDoc
  /\ UNCHANGED <<local, up, nextId, pc, req, buf, acked>>

\* heal: "stopped" when the operation before was a sync_user_data that
\* stopped after it had pushed entries to the remote, "healed" when it was a
\* sync_user_data that ran to its end right after such a one, "no" otherwise
\* tie: the local entries the sync_user_data before found with the id of a
\* remote entry and another content (empty after any other operation)
ExtInit ==
  /\ heal = "no"
  /\ tie = {}

(* ---------------------- sync in concurrent sessions ------------------- *)

\* what a running sync_user_data holds: local_data, firestore_data (the
\* document as its doc_ref.get() returned it), merged_data, and the place in
\* the list of history types
NoSnap == [local_data |-> DefaultLocal, firestore_data |-> DefaultLocal,
           merged_data |-> DefaultLocal, i |-> 0]

SnapInit ==
  /\ snap = [s \in Sessions |-> NoSnap]

\* the first history type from the i-th on that has entries to push, one past
\* the last when there is none
RECURSIVE next_type(_, _, _)
next_type(i, local_data, firestore_data) ==
  IF i > Len(SyncTypes) THEN i
  ELSE IF new_entries(Get(local_data, SyncTypes[i]), Get(firestore_data, SyncTypes[i])) # <<>>
       THEN i
       ELSE next_type(i + 1, local_data, firestore_data)

\* a session calls sync_user_data
CSyncStart(s) ==
  /\ pc[s] = "idle"
  /\ pc' = [pc EXCEPT ![s] = "sync_probe"]
  /\ UNCHANGED <<remote, local, up, nextId, req, buf, acked, snap>>

\* if self.is_firestore_available(): ... else return False
CSyncProbe(s) ==
  /\ pc[s] = "sync_probe"
  /\ pc' = [pc EXCEPT ![s] = IF up THEN "sync_load" ELSE "idle"]
  /\ UNCHANGED <<remote, local, up, nextId, req, buf, acked, snap>>

\* local_data = self._load_local_data(user_id)
CSyncLoad(s) ==
  /\ pc[s] = "sync_load"
  /\ snap' = [snap EXCEPT ![s] = [NoSnap EXCEPT !.local_data = load_local_data(local)]]
  /\ pc' = [pc EXCEPT ![s] = "sync_get"]
  /\ UNCHANGED <<remote, local, up, nextId, req, buf, acked>>

\* doc = doc_ref.get(); it raises when the remote has gone down; without a
\* document the call returns False; else firestore_data and merged_data
CSyncGet(s) ==
  /\ pc[s] = "sync_get"
  /\ IF up /\ remote.exists
     THEN /\ snap' = [snap EXCEPT ![s] = [local_data |-> snap[s].local_data,
                                          firestore_data |-> remote.lists,
                                          merged_data |-> remote.lists, i |-> 1]]
          /\ pc' = [pc EXCEPT ![s] = "sync_loop"]
     ELSE /\ snap' = [snap EXCEPT ![s] = NoSnap]
          /\ pc' = [pc EXCEPT ![s] = "idle"]
  /\ UNCHANGED <<remote, local, up, nextId, req, buf, acked>>

\* one turn of the loop that has entries to push:
\* merged_data[history_type] = firestore_entries + new_entries;
\* doc_ref.update({history_type: merged_data[history_type]}), which replaces
\* the remote list and raises when the remote has gone down
CSyncUpdate(s) ==
  /\ pc[s] = "sync_loop"
  /\ LET i == next_type(snap[s].i, snap[s].local_data, snap[s].firestore_data)
     IN /\ i <= Len(SyncTypes)
        /\ LET k == SyncTypes[i]
               firestore_entries == Get(snap[s].firestore_data, k)
               merged == merge_entries(firestore_entries,
                           new_entries(Get(snap[s].local_data, k), firestore_entries))
           IN IF up
              THEN /\ remote' = [remote EXCEPT !.lists = Put(remote.lists, k, merged)]
                   /\ snap' = [snap EXCEPT ![s].merged_data = Put(@, k, merged), ![s].i = i + 1]
                   /\ pc' = pc
              ELSE /\ remote' = remote
                   /\ snap' = [snap EXCEPT ![s] = NoSnap]
                   /\ pc' = [pc EXCEPT ![s] = "idle"]
  /\ UNCHANGED <<local, up, nextId, req, buf, acked>>

\* after the loop: self._save_local_data(user_id, merged_data); return True
CSyncSave(s) ==
  /\ pc[s] = "sync_loop"
  /\ next_type(snap[s].i, snap[s].local_data, snap[s].firestore_data) > Len(SyncTypes)
  /\ local' = save_local_data(snap[s].merged_data)
  /\ snap' = [snap EXCEPT ![s] = NoSnap]
  /\ pc' = [pc EXCEPT ![s] = "idle"]
  /\ UNCHANGED <<remote, up, nextId, req, buf, acked>>

(* ------------------ task update in concurrent sessions ---------------- *)

\* req[s] and buf[s] are the locals of the call a session is in: they are
\* gone when update_task_status or delete_task returns

\* the list update_task_status or delete_task writes for the list it read
rewrite_tasks(op, tasks, task) ==
  IF op = "update_task_status" THEN replace_task(tasks, task) ELSE remove_task(tasks, task)

\* a session calls save_task_entry
CTaskNew(s) ==
  /\ pc[s] = "idle"
  /\ nextId <= MaxId
  /\ req' = [req EXCEPT ![s] = [op |-> "save_task_entry", k |-> "task_history",
                                er |-> TaskEntry(nextId), el |-> TaskEntry(nextId),
                                create |-> FALSE]]
  /\ pc' = [pc EXCEPT ![s] = "probe"]
  /\ nextId' = nextId + 1
  /\ UNCHANGED <<remote, local, up, buf, acked, snap>>

\* a session calls update_task_status (with the status toggled) or
\* delete_task for a task its page shows
CTaskStart(s) ==
  /\ pc[s] = "idle"
  /\ \E t \in ShownTasks, op \in {"update_task_status", "delete_task"} :
       LET task == IF op = "update_task_status" THEN Toggled(t) ELSE t
       IN req' = [req EXCEPT ![s] = [op |-> op, k |-> "task_history", er |-> task,
                                     el |-> task, create |-> FALSE]]
  /\ pc' = [pc EXCEPT ![s] = "task_probe"]
  /\ UNCHANGED <<remote, local, up, nextId, buf, acked, snap>>

\* if self.is_firestore_available()
CTaskProbe(s) ==
  /\ pc[s] = "task_probe"
  /\ pc' = [pc EXCEPT ![s] = IF up THEN "task_get" ELSE "task_load"]
  /\ UNCHANGED <<remote, local, up, nextId, req, buf, acked, snap>>

\* doc = doc_ref.get(): it raises when the remote has gone down; without a
\* document the operation returns True; else tasks is the list read
CTaskGet(s) ==
  /\ pc[s] = "task_get"
  /\ IF up /\ remote.exists
     THEN /\ snap' = [snap EXCEPT ![s] = [NoSnap EXCEPT !.firestore_data = remote.lists]]
          /\ pc' = [pc EXCEPT ![s] = "task_write"]
     ELSE /\ snap' = [snap EXCEPT ![s] = NoSnap]
          /\ pc' = [pc EXCEPT ![s] = "idle"]
  /\ req' = [req EXCEPT ![s] = IF up /\ remote.exists THEN req[s] ELSE NoReq]
  /\ UNCHANGED <<remote, local, up, nextId, buf, acked>>

\* doc_ref.update({'task_history': tasks}) with the list rewritten from the
\* one read; it raises when the remote has gone down
CTaskWrite(s) ==
  /\ pc[s] = "task_write"
  /\ remote' = IF up
               THEN [remote EXCEPT !.lists =
                       Put(remote.lists, "task_history",
                           rewrite_tasks(req[s].op, Get(snap[s].firestore_data, "task_history"),
                                         req[s].er))]
               ELSE remote
  /\ snap' = [snap EXCEPT ![s] = NoSnap]
  /\ req' = [req EXCEPT ![s] = NoReq]
  /\ pc' = [pc EXCEPT ![s] = "idle"]
  /\ UNCHANGED <<local, up, nextId, buf, acked>>

\* data = self._load_local_data(user_id)
CTaskLoad(s) ==
  /\ pc[s] = "task_load"
  /\ buf' = [buf EXCEPT ![s] = load_local_data(local)]
  /\ pc' = [pc EXCEPT ![s] = "task_save"]
  /\ UNCHANGED <<remote, local, up, nextId, req, acked, snap>>

\* data['task_history'] = [...]; self._save_local_data(user_id, data)
CTaskSave(s) ==
  /\ pc[s] = "task_save"
  /\ local' = IF "task_history" \in DOMAIN buf[s]
              THEN save_local_data(Put(buf[s], "task_history",
                     rewrite_tasks(req[s].op, buf[s]["task_history"], req[s].el)))
              ELSE local
  /\ req' = [req EXCEPT ![s] = NoReq]
  /\ buf' = [buf EXCEPT ![s] = DefaultLocal]
  /\ pc' = [pc EXCEPT ![s] = "idle"]
  /\ UNCHANGED <<remote, up, nextId, acked, snap>>

(* --------------------------- history filter --------------------------- *)

\* the clock counts half days
DayLen == 2
MaxEntries == 2

FilterTypes == <<"mood_history", "focus_history", "task_history">>

\* days of get_user_history: None (0 here, as falsy as None) or a number
Windows == {0, 7}
\* how far back, in half days, the instant of a new entry lies
Ages == {2, 14, 15}
\* UTC offsets of zone-aware timestamps, in half days
Offsets == {-1, 0, 1}

\* a 'timestamp' value: missing, a string that is no ISO-8601 date, or a date
\* (a string or a datetime) with its wall-clock reading and, when zone-aware,
\* its UTC offset
NoStamp == [form |-> "none", aware |-> FALSE, wall |-> 0, off |-> 0]
BadStamp == [form |-> "bad", aware |-> FALSE, wall |-> 0, off |-> 0]

\* the naive writing of an instant: its UTC wall-clock reading
Naive(form, instant) == [form |-> form, aware |-> FALSE, wall |-> instant, off |-> 0]
\* the writing of an instant with a UTC offset
Aware(form, instant, off) == [form |-> form, aware |-> TRUE, wall |-> instant + off, off |-> off]

\* the timestamps an entry written at an instant can carry: none, a broken
\* string, the naive datetime or its isoformat(), an ISO-8601 string with an
\* offset, the zone-aware UTC datetime the remote store hands back
Stamps(instant) ==
  {NoStamp, BadStamp, Aware("dt", instant, 0)}
    \cup {Naive(f, instant) : f \in {"str", "dt"}}
    \cup {Aware("str", instant, o) : o \in Offsets}

\* the mutant of None that parses to the instant 0
NoneAsEpoch == [ok |-> TRUE, utc |-> 0]

None == [ok |-> FALSE, utc |-> 0]

\* the mutant of parse_timestamp that drops the offset instead of applying it
parse_timestamp_wall(ts) ==
  IF ts.form \in {"dt", "str"} THEN [ok |-> TRUE, utc |-> ts.wall] ELSE None

\* parse_timestamp: a datetime, or a string datetime.fromisoformat accepts, is
\* taken as UTC when naive (replace(tzinfo=utc)) and moved to UTC when
\* zone-aware (astimezone(utc)); anything else gives None
parse_timestamp(ts) ==
  IF ts.form = "dt"
  THEN IF ~ts.aware THEN [ok |-> TRUE, utc |-> ts.wall]
       ELSE [ok |-> TRUE, utc |-> ts.wall - ts.off]
  ELSE IF ts.form = "str"
       THEN IF ~ts.aware THEN [ok |-> TRUE, utc |-> ts.wall]
            ELSE [ok |-> TRUE, utc |-> ts.wall - ts.off]
       ELSE None

\* the moods the mood page offers, letter by letter
Moods == {<<"S", "a", "d">>, <<"C", "a", "l", "m">>, <<"T", "i", "r", "e", "d">>}

\* a mood_filter: None, a string, or a collection of moods
NoMoodFilter == [kind |-> "none", text |-> <<>>, items |-> {}]
StrFilter(text) == [kind |-> "str", text |-> text, items |-> {}]
ListFilter(items) == [kind |-> "list", text |-> <<>>, items |-> items]

MoodFilters ==
  {StrFilter(t) : t \in Moods \cup {<<>>}} \cup {ListFilter(M) : M \in SUBSET Moods}

\* if mood_filter: None, "" and an empty collection are falsy
Truthy(mood_filter) ==
  \/ mood_filter.kind = "str" /\ mood_filter.text # <<>>
  \/ mood_filter.kind = "list" /\ mood_filter.items # {}

\* a in b for two strings: a is a substring of b
IsSubstring(a, b) ==
  \E i \in 1..(Len(b) + 1) :
    /\ i + Len(a) - 1 <= Len(b)
    /\ \A j \in 1..Len(a) : b[i + j - 1] = a[j]

\* entry['mood'] in mood_filter
mood_in_any(mood, mood_filter) == TRUE

mood_in(mood, mood_filter) ==
  IF mood_filter.kind = "list" THEN mood \in mood_filter.items
  ELSE IsSubstring(mood, mood_filter.text)

\* _filter_history(data, days, mood_filter) at the time at: each of the three
\* lists, when days is truthy, keeps the entries whose parsed timestamp is
\* not None and >= cutoff; mood_history, when mood_filter is truthy, then
\* keeps the entries whose mood is in it
filter_history(data, days, mood_filter, at) ==
  LET cutoff == at - days * DayLen
      keep(entry) == /\ parse_timestamp(entry.timestamp).ok
                     /\ parse_timestamp(entry.timestamp).utc >= cutoff
      has_mood(entry) == mood_in(entry.mood, mood_filter)
  IN [k \in DOMAIN data |->
        LET history == IF days # 0 THEN SelectSeq(data[k], keep) ELSE data[k]
        IN IF Truthy(mood_filter) /\ k = "mood_history"
           THEN SelectSeq(history, has_mood)
           ELSE history]

NoOut == [called |-> FALSE, days |-> 0, mood_filter |-> NoMoodFilter,
          data |-> [k \in Range(FilterTypes) |-> <<>>]]

FiltInit ==
  /\ fnow = 0
  /\ frec = [k \in Range(FilterTypes) |-> <<>>]
  /\ fout = NoOut

RECURSIVE TotalLen(_, _)
TotalLen(data, keys) ==
  IF keys = {} THEN 0
  ELSE LET k == CHOOSE x \in keys : TRUE
       IN Len(data[k]) + TotalLen(data, keys \ {k})

\* the record gains an entry, written some time ago with one of the
\* timestamps an entry can carry; the page's filtered_data does not outlive
\* the rerun
FAdd ==
  /\ TotalLen(frec, DOMAIN frec) < MaxEntries
  /\ \E k \in Range(FilterTypes), a \in Ages :
       \E ts \in Stamps(fnow - a) :
         frec' = [frec EXCEPT ![k] = Append(@, [timestamp |-> ts])]
  /\ fout' = NoOut
  /\ UNCHANGED fnow

\* get_user_history(user, days) hands the record to _filter_history when
\* days is truthy
FFilter ==
  /\ \E days \in Windows :
       fout' = [called |-> days # 0, days |-> days, mood_filter |-> NoMoodFilter,
                data |-> IF days # 0 THEN filter_history(frec, days, NoMoodFilter, fnow)
                         ELSE frec]
  /\ UNCHANGED <<fnow, frec>>

\* the record gains an entry; a mood entry carries the mood of the mood page
MAdd ==
  /\ TotalLen(frec, DOMAIN frec) < MaxEntries
  /\ \E k \in Range(FilterTypes), ts \in {NoStamp, Naive("str", fnow)} :
       IF k = "mood_history"
       THEN \E mood \in Moods :
              frec' = [frec EXCEPT ![k] = Append(@, [timestamp |-> ts, mood |-> mood])]
       ELSE frec' = [frec EXCEPT ![k] = Append(@, [timestamp |-> ts])]
  /\ fout' = NoOut
  /\ UNCHANGED fnow

\* _filter_history(record, None, mood_filter)
MFilter ==
  /\ \E mood_filter \in MoodFilters :
       fout' = [called |-> TRUE, days |-> 0, mood_filter |-> mood_filter,
                data |-> filter_history(frec, 0, mood_filter, fnow)]
  /\ UNCHANGED <<fnow, frec>>

\* the clock of the pages stops here
MaxNow == 15

\* the 'timestamp' of the entry a page stores at the instant at, on a host
\* whose clock reads tz half days ahead of UTC: the mood page and the task
\* page put datetime.now().isoformat() in their entry, and save_mood_entry
\* overwrites it, with datetime.now() for the remote store (which keeps the
\* naive reading as a UTC instant and hands it back zone-aware) and with
\* datetime.now().isoformat() for the file; the focus page puts start_time
\* and end_time in its entry and no timestamp, and save_focus_entry adds none
page_timestamp(k, remote_up, at, tz) ==
  IF k = "focus_history" THEN NoStamp
  ELSE IF k = "mood_history" /\ remote_up THEN Aware("dt", at + tz, 0)
       ELSE Naive("str", at + tz)

\* a page stores an entry through its save operation; saved is the instant
\* of the save (of the model: the entry does not hold it)
PageSave ==
  /\ TotalLen(frec, DOMAIN frec) < MaxEntries
  /\ \E k \in Range(FilterTypes), remote_up \in BOOLEAN, tz \in Offsets :
       frec' = [frec EXCEPT ![k] =
                  Append(@, [timestamp |-> page_timestamp(k, remote_up, fnow, tz),
                             saved |-> fnow])]
  /\ fout' = NoOut
  /\ UNCHANGED fnow

\* half a day passes
PageTick ==
  /\ fnow < MaxNow
  /\ fnow' = fnow + 1
  /\ fout' = NoOut
  /\ UNCHANGED frec

(* ------------------------------ profile ------------------------------ *)

Bios == {"bio1", "bio2"}

Interests == {"reading", "chess"}

\* the 'profile' field of a record: absent, or a map from keys to values
NoProfile == [present |-> FALSE, fields |-> [k \in {} |-> "none"]]

\* the profile handle_signup sets
SignupProfile ==
  [present |-> TRUE,
   fields |-> [k \in {"name", "email", "joined_date", "last_login"} |-> k]]

\* doc_ref.update({'profile.bio': bio, 'profile.interests': interests}): the
\* two dotted paths are set inside the map 'profile' (created when missing),
\* nothing else of the document is written; NotFound without a document
remote_update_profile(doc, prof, fail, bio, interests) ==
  IF fail \/ ~doc.exists
  THEN [ok |-> FALSE, doc |-> doc, prof |-> prof]
  ELSE [ok |-> TRUE, doc |-> doc,
        prof |-> [present |-> TRUE,
                  fields |-> [k \in (DOMAIN prof.fields) \cup {"bio", "interests"} |->
                                IF k = "bio" THEN bio
                                ELSE IF k = "interests" THEN interests
                                ELSE prof.fields[k]]]]

\* data = _load_local_data(); if 'profile' not in data: data['profile'] = {};
\* data['profile']['bio'] = bio; data['profile']['interests'] = interests;
\* _save_local_data(data): the whole record is written again
local_update_profile_replace(file, prof, bio, interests) ==
  [ok |-> TRUE, file |-> save_local_data(load_local_data(file)),
   prof |-> [present |-> TRUE, fields |-> [k \in {"bio", "interests"} |->
                                            IF k = "bio" THEN bio ELSE interests]]]

local_update_profile(file, prof, bio, interests) ==
  LET data == load_local_data(file)
      loaded == IF file.exists /\ prof.present THEN prof.fields ELSE NoProfile.fields
      withBio == Put(loaded, "bio", bio)
  IN [ok |-> TRUE, file |-> save_local_data(data),
      prof |-> [present |-> TRUE, fields |-> Put(withBio, "interests", interests)]]

\* update_user_profile: the probe, then the remote or the local path; an
\* exception is caught and the operation returns False
update_user_profile(doc, rprof, file, lprof, avail, fail, bio, interests) ==
  IF avail
  THEN LET r == remote_update_profile(doc, rprof, fail, bio, interests)
       IN [res |-> r.ok, path |-> "remote", remote |-> r.doc, rprofile |-> r.prof,
           local |-> file, lprofile |-> lprof]
  ELSE LET l == local_update_profile(file, lprof, bio, interests)
       IN [res |-> l.ok, path |-> "local", remote |-> doc, rprofile |-> rprof,
           local |-> l.file, lprofile |-> l.prof]

NoProfLast == [op |-> "init", res |-> FALSE, path |-> "none", bio |-> "none", interests |-> "none"]

ProfInit ==
  /\ rprofile = NoProfile
  /\ lprofile = NoProfile
  /\ plast = NoProfLast

PSetAvailability ==
  /\ up' = ~up
  /\ UNCHANGED <<remote, local, nextId, last, rprofile, lprofile, plast>>

\* handle_signup, with the profile it sets
PHandleSignup ==
  /\ ~remote.exists
  /\ up
  /\ remote' = SignupDoc
  /\ rprofile' = SignupProfile
  /\ plast' = [NoProfLast EXCEPT !.op = "handle_signup"]
  /\ UNCHANGED <<local, up, nextId, last, lprofile>>

\* save_task_entry, so that the record has other fields with content
PSaveTaskEntry ==
  /\ SaveTaskEntry
  /\ plast' = [NoProfLast EXCEPT !.op = "save_task_entry"]
  /\ UNCHANGED <<rprofile, lprofile>>

\* sync_user_data: merged_data = firestore_data.copy() holds the remote
\* 'profile', and the local file is overwritten with it
PSyncUserData ==
  /\ LET r == sync_user_data(remote, local, up, 0)
     IN /\ remote' = r.remote
        /\ local' = r.local
        /\ lprofile' = IF r.out = "synced" THEN rprofile ELSE lprofile
        /\ plast' = [NoProfLast EXCEPT !.op = "sync_user_data", !.res = r.res]
  /\ UNCHANGED <<up, nextId, last, rprofile>>

UpdateUserProfile ==
  /\ \E bio \in Bios, interests \in Interests, fail \in Fails :
       LET r == update_user_profile(remote, rprofile, local, lprofile, up, fail, bio, interests)
       IN /\ remote' = r.remote
          /\ rprofile' = r.rprofile
          /\ local' = r.local
          /\ lprofile' = r.lprofile
          /\ plast' = [op |-> "update_user_profile", res |-> r.res, path |-> r.path,
                       bio |-> bio, interests |-> interests]
  /\ UNCHANGED <<up, nextId, last>>

Init == StoreInit /\ OtpInit /\ ConcInit /\ ExtInit /\ ProfInit /\ SnapInit /\ FiltInit

Next ==
  \/ SetAvailability /\ UNCHANGED <<otpVars, concVars, extVars>>
  \/ HandleSignup /\ UNCHANGED <<otpVars, concVars, extVars>>
  \/ SaveMoodEntry /\ UNCHANGED <<otpVars, concVars, extVars>>
  \/ SaveTaskEntry /\ UNCHANGED <<otpVars, concVars, extVars>>
  \/ SaveFocusEntry /\ UNCHANGED <<otpVars, concVars, extVars>>
  \/ SaveSchedule /\ UNCHANGED <<otpVars, concVars, extVars>>
  \/ UpdateTaskStatus /\ UNCHANGED <<otpVars, concVars, extVars>>
  \/ DeleteTask /\ UNCHANGED <<otpVars, concVars, extVars>>
  \/ SyncUserData /\ UNCHANGED <<otpVars, concVars, extVars>>

Spec == Init /\ [][Next]_vars

\* the OTP operations alone, with the clock
NextOtp ==
  \/ Tick /\ UNCHANGED <<remote, local, nextId, last, concVars, extVars>>
  \/ OtpSetAvailability /\ UNCHANGED <<remote, local, nextId, last, concVars, extVars>>
  \/ SendOtp /\ UNCHANGED <<remote, local, nextId, last, concVars, extVars>>
  \/ VerifyOtp /\ UNCHANGED <<remote, local, nextId, last, concVars, extVars>>

SpecOtp == Init /\ [][NextOtp]_vars

\* sync_user_data stopping between its last remote update and its
\* _save_local_data (the write raising, or the process ending there)
SyncStopped ==
  /\ up /\ remote.exists
  /\ LET r == sync_user_data(remote, local, up, SyncCalls + 1)
     IN /\ remote' = r.remote
        /\ local' = r.local
        /\ Record("sync_user_data", "none", NoEntry, r.out = "error", r.res, r.out, r.pushed)
  /\ UNCHANGED <<up, nextId>>

\* the local entries that have the id of an entry of the same remote list
\* and another content
Ties ==
  UNION {{l \in Range(Get(load_local_data(local), k)) :
            \E r \in Range(Get(remote.lists, k)) :
              r.id # 0 /\ r.id = l.id /\ SerEntry(r) # SerEntry(l)} :
         k \in {"mood_history", "focus_history", "task_history", "chat_history", "schedules"}}

AfterSync ==
  /\ heal' = IF last'.out = "error" /\ last'.pushed THEN "stopped"
             ELSE IF heal = "stopped" /\ last'.out = "synced" THEN "healed"
             ELSE "no"
  /\ tie' = IF last'.out = "synced" THEN Ties ELSE {}

AfterOther ==
  /\ heal' = "no"
  /\ tie' = {}

\* the saves, the task update and the sync, a sync possibly stopping before
\* its local write
NextHeal ==
  \/ SetAvailability /\ AfterOther /\ UNCHANGED <<otpVars, concVars, profVars, snap, filtVars>>
  \/ HandleSignup /\ AfterOther /\ UNCHANGED <<otpVars, concVars, profVars, snap, filtVars>>
  \/ SaveMoodEntry /\ AfterOther /\ UNCHANGED <<otpVars, concVars, profVars, snap, filtVars>>
  \/ SaveTaskEntry /\ AfterOther /\ UNCHANGED <<otpVars, concVars, profVars, snap, filtVars>>
  \/ SaveFocusEntry /\ AfterOther /\ UNCHANGED <<otpVars, concVars, profVars, snap, filtVars>>
  \/ UpdateTaskStatus /\ AfterOther /\ UNCHANGED <<otpVars, concVars, profVars, snap, filtVars>>
  \/ SyncUserData /\ AfterSync /\ UNCHANGED <<otpVars, concVars, profVars, snap, filtVars>>
  \/ SyncStopped /\ AfterSync /\ UNCHANGED <<otpVars, concVars, profVars, snap, filtVars>>

SpecHeal == Init /\ [][NextHeal]_vars

\* the profile operations, with what creates and copies the records
NextProfile ==
  \/ PSetAvailability /\ UNCHANGED <<otpVars, concVars, healVars, snap, filtVars>>
  \/ PHandleSignup /\ UNCHANGED <<otpVars, concVars, healVars, snap, filtVars>>
  \/ PSaveTaskEntry /\ UNCHANGED <<otpVars, concVars, healVars, snap, filtVars>>
  \/ PSyncUserData /\ UNCHANGED <<otpVars, concVars, healVars, snap, filtVars>>
  \/ UpdateUserProfile /\ UNCHANGED <<otpVars, concVars, healVars, snap, filtVars>>

SpecProfile == Init /\ [][NextProfile]_vars

(* ------------------------- claims: sync ------------------------------- *)

AllLists == {"mood_history", "focus_history", "task_history", "chat_history", "schedules"}

RemoteList(k) == Get(remote.lists, k)

LocalList(k) == Get(load_local_data(local), k)

SyncedStep == last'.op = "sync_user_data" /\ last'.out = "synced"

\* C1: reconcile is idempotent: a sync_user_data that directly follows a
\* sync_user_data that ran to its end changes neither the remote document
\* nor the local file (no entry added twice, no list changes its length)
C1_SyncIdempotent ==
  [][(last.op = "sync_user_data" /\ last.out = "synced" /\ last'.op = "sync_user_data")
       => (remote' = remote /\ local' = local)]_vars

\* a second sync has run right after one that pushed local-only entries
C1_Witness ==
  /\ last.op = "sync_user_data" /\ last.out = "synced" /\ last.again
  /\ \E k \in AllLists : RemoteList(k) # <<>> /\ LocalList(k) = SerList(RemoteList(k))

\* e is in the list k of a record, whatever the representation of its timestamp
Has(lists, k, e) == \E x \in Range(Get(lists, k)) : SerEntry(x) = SerEntry(e)

\* C2: the merge of sync_user_data loses no data: every entry of a list of
\* the local record or of the remote document before a sync that ran to its
\* end is in that list of both stores after it
C2_NoDataLoss ==
  [][SyncedStep =>
       \A k \in AllLists :
         \A e \in Range(LocalList(k)) \cup Range(RemoteList(k)) :
           Has(remote'.lists, k, e) /\ Has(local'.lists, k, e)]_vars

\* C5 as stated: after a sync that ran to its end, a list that had local-only
\* identified entries is, in both stores, the remote list followed by them
C5_MergeOrderBothEqual ==
  [][SyncedStep =>
       \A i \in 1..Len(SyncTypes) :
         LET k == SyncTypes[i]
             new == new_entries(LocalList(k), RemoteList(k))
         IN new # <<>> =>
              /\ Get(remote'.lists, k) = RemoteList(k) \o new
              /\ Get(local'.lists, k) = RemoteList(k) \o new]_vars

\* C5 amended: the remote list is the remote list before the call followed
\* by the local-only identified entries in their local order, and the local
\* list is that list as json.dump(default=str) writes it
C5_MergeOrder ==
  [][SyncedStep =>
       \A i \in 1..Len(SyncTypes) :
         LET k == SyncTypes[i]
             new == new_entries(LocalList(k), RemoteList(k))
         IN new # <<>> =>
              /\ Get(remote'.lists, k) = RemoteList(k) \o new
              /\ Get(local'.lists, k) = SerList(RemoteList(k) \o new)]_vars

\* a sync has appended a local-only entry behind an entry the remote held
C5_Witness ==
  /\ last.op = "sync_user_data" /\ last.out = "synced" /\ last.pushed
  /\ \E k \in AllLists :
       /\ Len(RemoteList(k)) >= 2
       /\ RemoteList(k)[Len(RemoteList(k))].id # 0
       /\ RemoteList(k)[1].n < RemoteList(k)[Len(RemoteList(k))].n
       /\ LocalList(k) = SerList(RemoteList(k))

\* C6: first push: with the remote reachable and no remote document, a sync
\* creates the document with the identified local tasks in its task list
C6_FirstPush ==
  (/\ last.op = "sync_user_data" /\ last.out = "nodoc"
   /\ \E t \in Range(LocalList("task_history")) : t.id # 0)
  => (/\ remote.exists
      /\ \A t \in Range(LocalList("task_history")) :
           t.id # 0 => t \in Range(RemoteList("task_history")))

(* ------------------------- claims: saves ------------------------------ *)

\* C3: with the remote forced to fail (the probe included), every save
\* operation returns True and its entry is in the list of the record
\* _load_local_data returns
C3_FallbackCorrect ==
  (last.op \in SaveOps /\ ~last.avail)
  => (last.res /\ last.entry \in Range(LocalList(last.k)))

\* save_schedule has stored an entry locally while the remote was down
C3_Witness ==
  /\ last.op = "save_schedule" /\ ~last.avail /\ last.res
  /\ last.entry \in Range(LocalList("schedules"))

\* C4: when the probe reports the remote available and the remote append
\* raises, the save falls back to the local store, so its entry is in the
\* local record
C4_FallbackOnRemoteError ==
  (last.op \in SaveOps /\ last.avail /\ last.failed)
  => \E x \in Range(LocalList(last.k)) : x.n = last.entry.n

(* ------------------------- claims: tasks ------------------------------ *)

\* the indices of the entries of s whose id is that of task
Hits(s, task) == {i \in 1..Len(s) : s[i].id = task.id}

\* s without its j-th element
RemoveAt(s, j) == [i \in 1..(Len(s) - 1) |-> IF i < j THEN s[i] ELSE s[i + 1]]

\* what an update (upd) or a delete of task may do to the list before
OneEntryChanged(before, after, task, upd) ==
  /\ Cardinality(Hits(before, task)) <= 1
  /\ IF Hits(before, task) = {}
     THEN after = before
     ELSE LET j == CHOOSE i \in Hits(before, task) : TRUE
          IN IF upd
             THEN /\ Len(after) = Len(before)
                  /\ after[j] = task
                  /\ \A i \in 1..Len(before) : i # j => after[i] = before[i]
             ELSE after = RemoveAt(before, j)

\* C8: update_task_status and delete_task change or remove exactly the one
\* entry whose id is task['id'] in the task list of the store they work on,
\* also when another task has the same status and timestamp; every other
\* entry, every other list and the other store stay as they were
C8_TaskIdentity ==
  [][(last'.op \in {"update_task_status", "delete_task"} /\ last'.res) =>
       LET upd == last'.op = "update_task_status"
           task == last'.entry
       IN IF last'.out = "remote"
          THEN /\ local' = local
               /\ remote'.exists = remote.exists
               /\ \A k \in AllLists \ {"task_history"} : Get(remote'.lists, k) = RemoteList(k)
               /\ OneEntryChanged(RemoteList("task_history"),
                                  Get(remote'.lists, "task_history"), task, upd)
          ELSE /\ remote' = remote
               /\ \A k \in AllLists \ {"task_history"} : Get(local'.lists, k) = LocalList(k)
               /\ OneEntryChanged(LocalList("task_history"),
                                  Get(local'.lists, "task_history"), task, upd)]_vars

\* a task has been updated in a list that holds another task with the same
\* status it had and the same timestamp
C8_Witness ==
  /\ last.op = "update_task_status" /\ last.res /\ last.out = "remote"
  /\ Len(RemoteList("task_history")) = 2
  /\ last.entry \in Range(RemoteList("task_history"))
  /\ \E t \in Range(RemoteList("task_history")) :
       t.id # last.entry.id /\ t.status # last.entry.status /\ t.tsk = last.entry.tsk

\* two sessions saving, one call at a time
NextConc ==
  \/ \E s \in Sessions : CStart(s) /\ UNCHANGED <<last, otpVars, extVars>>
  \/ \E s \in Sessions : CProbe(s) /\ UNCHANGED <<last, otpVars, extVars>>
  \/ \E s \in Sessions : CRemoteAppend(s) /\ UNCHANGED <<last, otpVars, extVars>>
  \/ \E s \in Sessions : CLocalLoad(s) /\ UNCHANGED <<last, otpVars, extVars>>
  \/ \E s \in Sessions : CLocalWrite(s) /\ UNCHANGED <<last, otpVars, extVars>>
  \/ CSetAvailability /\ UNCHANGED <<last, otpVars, extVars>>
  \/ CHandleSignup /\ UNCHANGED <<last, otpVars, extVars>>

SpecConc == Init /\ [][NextConc]_vars

\* two sessions saving and syncing, one call at a time
NextSyncConc ==
  \/ \E s \in Sessions : CStart(s) /\ UNCHANGED <<last, otpVars, healVars, profVars, snap, filtVars>>
  \/ \E s \in Sessions : CProbe(s) /\ UNCHANGED <<last, otpVars, healVars, profVars, snap, filtVars>>
  \/ \E s \in Sessions : CRemoteAppend(s) /\ UNCHANGED <<last, otpVars, healVars, profVars, snap, filtVars>>
  \/ \E s \in Sessions : CLocalLoad(s) /\ UNCHANGED <<last, otpVars, healVars, profVars, snap, filtVars>>
  \/ \E s \in Sessions : CLocalWrite(s) /\ UNCHANGED <<last, otpVars, healVars, profVars, snap, filtVars>>
  \/ CSetAvailability /\ UNCHANGED <<last, otpVars, healVars, profVars, snap, filtVars>>
  \/ CHandleSignup /\ UNCHANGED <<last, otpVars, healVars, profVars, snap, filtVars>>
  \/ \E s \in Sessions : CSyncStart(s) /\ UNCHANGED <<last, otpVars, healVars, profVars, filtVars>>
  \/ \E s \in Sessions : CSyncProbe(s) /\ UNCHANGED <<last, otpVars, healVars, profVars, filtVars>>
  \/ \E s \in Sessions : CSyncLoad(s) /\ UNCHANGED <<last, otpVars, healVars, profVars, filtVars>>
  \/ \E s \in Sessions : CSyncGet(s) /\ UNCHANGED <<last, otpVars, healVars, profVars, filtVars>>
  \/ \E s \in Sessions : CSyncUpdate(s) /\ UNCHANGED <<last, otpVars, healVars, profVars, filtVars>>
  \/ \E s \in Sessions : CSyncSave(s) /\ UNCHANGED <<last, otpVars, healVars, profVars, filtVars>>

SpecSyncConc == Init /\ [][NextSyncConc]_vars

\* two sessions saving, updating and deleting tasks, one call at a time
NextTaskConc ==
  \/ \E s \in Sessions : CTaskNew(s) /\ UNCHANGED <<last, otpVars, healVars, profVars, filtVars>>
  \/ \E s \in Sessions : CProbe(s) /\ UNCHANGED <<last, otpVars, healVars, profVars, snap, filtVars>>
  \/ \E s \in Sessions : CRemoteAppend(s) /\ UNCHANGED <<last, otpVars, healVars, profVars, snap, filtVars>>
  \/ \E s \in Sessions : CLocalLoad(s) /\ UNCHANGED <<last, otpVars, healVars, profVars, snap, filtVars>>
  \/ \E s \in Sessions : CLocalWrite(s) /\ UNCHANGED <<last, otpVars, healVars, profVars, snap, filtVars>>
  \/ CSetAvailability /\ UNCHANGED <<last, otpVars, healVars, profVars, snap, filtVars>>
  \/ CHandleSignup /\ UNCHANGED <<last, otpVars, healVars, profVars, snap, filtVars>>
  \/ \E s \in Sessions : CTaskStart(s) /\ UNCHANGED <<last, otpVars, healVars, profVars, filtVars>>
  \/ \E s \in Sessions : CTaskProbe(s) /\ UNCHANGED <<last, otpVars, healVars, profVars, filtVars>>
  \/ \E s \in Sessions : CTaskGet(s) /\ UNCHANGED <<last, otpVars, healVars, profVars, filtVars>>
  \/ \E s \in Sessions : CTaskWrite(s) /\ UNCHANGED <<last, otpVars, healVars, profVars, filtVars>>
  \/ \E s \in Sessions : CTaskLoad(s) /\ UNCHANGED <<last, otpVars, healVars, profVars, filtVars>>
  \/ \E s \in Sessions : CTaskSave(s) /\ UNCHANGED <<last, otpVars, healVars, profVars, filtVars>>

SpecTaskConc == Init /\ [][NextTaskConc]_vars

(* ----------------- claims: task update and other sessions ------------- *)

\* C28: update_task_status and delete_task on the remote do not lose a
\* concurrent append: a task another session has appended to the remote
\* task_history, also between this operation's read of the document and
\* its write of the rewritten list, is still in the list after the write
C28_TaskWriteKeepsAppends ==
  [][\A s \in Sessions :
       (pc[s] = "task_write" /\ pc'[s] = "idle") =>
         \A a \in acked :
           (/\ a.s # s /\ a.k = "task_history" /\ a.e.id # req[s].er.id
            /\ \E t \in Range(RemoteList("task_history")) : t.id = a.e.id)
             => \E t \in Range(Get(remote'.lists, "task_history")) : t.id = a.e.id]_vars

(* --------------------- claims: sync and other sessions ---------------- *)

\* C15: sync_user_data never overwrites newer remote data of another
\* session: an entry another session has appended to a remote list, also
\* between this session's read of the document and its write of the merged
\* list, is still in the list after every step of the sync
C15_SyncKeepsOthersAppends ==
  [][\A s \in Sessions :
       pc[s] = "sync_loop" =>
         \A a \in acked :
           (a.s # s /\ a.e \in Range(Get(remote.lists, a.k)))
             => a.e \in Range(Get(remote'.lists, a.k))]_vars

(* ------------------------ claims: concurrency ------------------------- *)

\* C7: atomic append under concurrent sessions: every entry whose remote
\* append returned is in its remote list afterwards, under every
\* interleaving of the sessions' calls (no lost update)
C7_NoLostAppend ==
  \A a \in acked : a.e \in Range(RemoteList(a.k))

\* two sessions have appended to the same list, the second while the first
\* was between its probe and its append
C7_Witness ==
  \E a \in acked, b \in acked :
    /\ a.s # b.s /\ a.k = b.k /\ a.e # b.e /\ b.overlap
    /\ pc[a.s] = "idle" /\ pc[b.s] = "idle"
    /\ a.e \in Range(RemoteList(a.k)) /\ b.e \in Range(RemoteList(b.k))

(* ----------------------------- claims: OTP ---------------------------- *)

\* C9: OTP single use: a code is verified at most as often as send_otp has
\* stored a challenge carrying it, so once verify_otp has succeeded for a
\* code issued once, every later verify_otp with it returns false, whichever
\* store each call consults
C9_SingleUse ==
  \A c \in Codes : verified[c] <= issued[c]

\* a code issued once and verified once has been refused, before its expiry
C9_Witness ==
  /\ otpLast.op = "verify_otp" /\ ~otpLast.res
  /\ issue.sent /\ issue.used /\ otpLast.code = issue.code
  /\ issued[issue.code] = 1 /\ verified[issue.code] = 1
  /\ now <= issue.at + OtpTtl

\* a step of verify_otp (the clock and the availability stay as they are)
VerifyStep == otpLast'.op = "verify_otp" /\ now' = now /\ up' = up

\* C10: OTP expiry: a verify_otp with the code of the latest challenge
\* send_otp stored, not verified before, returns true when it is called at
\* or before the challenge's expiry, 10 minutes after the send, and false
\* when it is called later (no remote call of the verify_otp raising)
C10_ExpiryOfIssuedCode ==
  [][(/\ VerifyStep /\ otpLast'.failAt = "none"
      /\ issue.sent /\ ~issue.used /\ otpLast'.code = issue.code)
       => (otpLast'.res = (now <= issue.at + OtpTtl))]_vars

\* what the stores do apply: send_otp stores a challenge expiring 10 minutes
\* after the call, verify_otp returns true only for a code carried by a
\* stored challenge that has not expired, and, no remote call raising, it
\* returns true when the challenge it consults (the remote one when the
\* remote is reachable and holds one, else the local file) carries the code
\* and has not expired
ExpiryPerStore ==
  [][/\ (issued' # issued =>
           LET c == otpLast'.code
           IN \/ /\ otpRemote' = [exists |-> TRUE, otp |-> c, expires_at |-> now + OtpTtl]
                 /\ otpLocal' = otpLocal
              \/ /\ otpLocal' = [kind |-> "data", otp |-> c, expires_at |-> now + OtpTtl]
                 /\ otpRemote' = otpRemote)
     /\ (VerifyStep =>
           LET code == otpLast'.code
               remoteLive == /\ otpRemote.exists /\ otpRemote.otp = code
                             /\ now <= otpRemote.expires_at
               localLive == /\ otpLocal.kind = "data" /\ otpLocal.otp = code
                            /\ now <= otpLocal.expires_at
               consultedLive == IF up /\ otpRemote.exists THEN remoteLive ELSE localLive
           IN /\ otpLast'.res => (remoteLive \/ localLive)
              /\ (otpLast'.failAt = "none" /\ consultedLive) => otpLast'.res)]_vars

(* ------------------------ claims: expired OTP ------------------------- *)

\* C17: an expired challenge is consumed: when verify_otp rejects a code
\* because the challenge it consults has expired, that challenge is deleted
\* from the backend that held it
C17_ExpiredConsumed ==
  [][(VerifyStep /\ otpLast'.failAt = "none") =>
       IF up /\ otpRemote.exists
       THEN now > otpRemote.expires_at => ~otpRemote'.exists
       ELSE (otpLocal.kind = "data" /\ now > otpLocal.expires_at) => otpLocal'.kind # "data"]_vars

(* ------------------------ claims: one valid OTP ----------------------- *)

\* C26: at most one valid OTP per email: once send_otp has stored a new
\* challenge, the code of an earlier send_otp no longer verifies, whichever
\* backend holds each challenge and whichever backend verify_otp consults
C26_OneValidOtp ==
  [][(VerifyStep /\ issue.sent /\ otpLast'.code # issue.code) => ~otpLast'.res]_vars

(* ---------------------- claims: missing document ---------------------- *)

\* C12: a user without remote document is an empty record, not an error:
\* with the remote available and no document for the user, a save operation
\* does not fail
C12_MissingDocIsEmptyRecord ==
  [][(last'.op \in SaveOps /\ nextId' # nextId /\ up /\ ~remote.exists)
       => last'.res]_vars

(* ---------------------- claims: tasks, full list ---------------------- *)

\* C16: update_task_status and delete_task work on the full stored task
\* list: after either, the stored tasks whose id is not task['id'] are the
\* same, with the same content and in the same order, as before, those a
\* status filter of the task page hides included
C16_FullListKept ==
  [][(last'.op \in {"update_task_status", "delete_task"} /\ last'.res) =>
       LET task == last'.entry
           others(tasks) == SelectSeq(tasks, LAMBDA t : t.id # task.id)
       IN /\ others(Get(remote'.lists, "task_history")) = others(RemoteList("task_history"))
          /\ others(Get(local'.lists, "task_history")) = others(LocalList("task_history"))]_vars

\* a task has been deleted from a view filtered by its status, and the task
\* the filter hid is still stored
C16_Witness ==
  /\ last.op = "delete_task" /\ last.res /\ last.out = "remote"
  /\ Len(RemoteList("task_history")) = 1
  /\ last.entry \notin Range(RemoteList("task_history"))
  /\ FilteredTasks(RemoteList("task_history"), last.entry.status) = <<>>

(* ---------------------- claims: result of the sync -------------------- *)

\* C18 as stated: sync_user_data returns true exactly when it merged a list
\* (pushed a local-only identified entry)
C18_TrueIffMerged ==
  (last.op = "sync_user_data") => (last.res <=> last.pushed)

\* C18 amended: sync_user_data returns false when the remote is unavailable;
\* with the remote available and the user's document there it returns true
\* exactly when no call raises, whether or not a list was merged, and then
\* the local file holds the remote record
C18_TrueIffCompleted ==
  [][last'.op = "sync_user_data" =>
       /\ ~up => ~last'.res
       /\ (up /\ remote.exists) => (last'.res <=> ~last'.failed)
       /\ last'.res => local' = save_local_data(remote'.lists)]_vars

\* a sync has returned true without a list to merge
C18_Witness ==
  /\ last.op = "sync_user_data" /\ last.res /\ ~last.pushed
  /\ \E k \in AllLists : RemoteList(k) # <<>> /\ LocalList(k) = SerList(RemoteList(k))

(* ---------------------- claims: interrupted sync ---------------------- *)

\* the list after holds the list before as its beginning (no entry lost), and
\* what follows carries ids the list before did not hold (none added twice)
GrownOnce(before, after) ==
  /\ Len(after) >= Len(before)
  /\ SubSeq(after, 1, Len(before)) = before
  /\ \A i \in (Len(before) + 1)..Len(after) :
       after[i].id \notin {before[j].id : j \in 1..Len(before)}

\* C14 as stated: the sync_user_data that runs to its end right after one
\* that stopped between a remote update and its local write leaves the
\* local record equal to the remote record, adds no entry to a remote list
\* a second time and loses no remote entry
C14_HealedEqual ==
  [][(heal = "stopped" /\ SyncedStep)
       => /\ local'.lists = remote'.lists
          /\ \A k \in AllLists : GrownOnce(RemoteList(k), Get(remote'.lists, k))]_vars

\* C14 amended: it leaves the local record equal to the remote record as
\* json.dump(default=str) writes it (a native datetime is a string in the
\* file), adds no entry to a remote list a second time and loses none
C14_SelfHealing ==
  [][(heal = "stopped" /\ SyncedStep)
       => /\ local' = save_local_data(remote'.lists)
          /\ \A k \in AllLists : GrownOnce(RemoteList(k), Get(remote'.lists, k))]_vars

\* a sync has run to its end right after one that stopped after its push,
\* and the pushed entry is once in the remote list and in the local one
C14_Witness ==
  /\ heal = "healed"
  /\ \E k \in AllLists :
       /\ \E i \in 1..Len(RemoteList(k)) :
            /\ RemoteList(k)[i].id # 0
            /\ \A j \in 1..Len(RemoteList(k)) : RemoteList(k)[j].id = RemoteList(k)[i].id => j = i
       /\ LocalList(k) = SerList(RemoteList(k))

\* C20: sync_user_data never appends a local entry without an 'id' to a
\* remote list: whatever a call adds to a remote list carries an id, so
\* repeated calls leave the id-less entries of the remote lists as they were
C20_IdlessNeverPushed ==
  [][last'.op = "sync_user_data" =>
       \A k \in AllLists :
         /\ SelectSeq(Get(remote'.lists, k), LAMBDA e : e.id = 0)
              = SelectSeq(RemoteList(k), LAMBDA e : e.id = 0)
         /\ \A e \in Range(Get(remote'.lists, k)) \ Range(RemoteList(k)) : e.id # 0]_vars

\* a sync has pushed an identified entry while the local record held an
\* entry without id that the remote does not have
C20_Witness ==
  /\ last.op = "sync_user_data" /\ last.pushed
  /\ \E k \in AllLists : \E e \in Range(LocalList(k)) :
       e.id = 0 /\ ~Has(remote.lists, k, e)

(* --------------------------- claims: ties ----------------------------- *)

\* the positions of the entries of a list that carry the id
WithId(entries, id) == {i \in 1..Len(entries) : entries[i].id = id}

\* C19: remote wins ties: when an entry of a local list has the id of an
\* entry of the same remote list and another content, a sync_user_data that
\* runs to its end leaves exactly one entry with that id in each backend,
\* with the remote content (in the local file as json.dump writes it)
C19_RemoteWinsTies ==
  [][SyncedStep =>
       \A k \in AllLists :
         \A r \in Range(RemoteList(k)), l \in Range(LocalList(k)) :
           (r.id # 0 /\ r.id = l.id /\ SerEntry(r) # SerEntry(l)) =>
             /\ \E i \in 1..Len(Get(remote'.lists, k)) :
                  /\ WithId(Get(remote'.lists, k), r.id) = {i}
                  /\ Get(remote'.lists, k)[i] = r
             /\ \E i \in 1..Len(Get(local'.lists, k)) :
                  /\ WithId(Get(local'.lists, k), r.id) = {i}
                  /\ Get(local'.lists, k)[i] = SerEntry(r)]_vars

\* a sync has met a task pending in one backend and completed in the other,
\* and both backends now hold it once, with the remote status
C19_Witness ==
  /\ last.op = "sync_user_data" /\ last.out = "synced"
  /\ tie # {}
  /\ \A l \in tie :
       \E r \in Range(RemoteList("task_history")) :
         /\ r.id = l.id /\ r.status # l.status
         /\ Cardinality(WithId(RemoteList("task_history"), l.id)) = 1
         /\ Cardinality(WithId(LocalList("task_history"), l.id)) = 1
         /\ r \in Range(LocalList("task_history"))

(* -------------------------- claims: profile --------------------------- *)

\* the two stores hold equal records
EqualRecords ==
  /\ remote.exists /\ local.exists
  /\ local.lists = remote.lists
  /\ lprofile = rprofile

\* the profile after is the profile before with bio and interests set
ProfileSet(before, after, bio, interests) ==
  /\ after.present
  /\ DOMAIN after.fields = (DOMAIN before.fields) \cup {"bio", "interests"}
  /\ after.fields["bio"] = bio /\ after.fields["interests"] = interests
  /\ \A k \in (DOMAIN before.fields) \ {"bio", "interests"} : after.fields[k] = before.fields[k]

\* C13: update_user_profile yields the same record on both backends: from
\* equal records the remote path (dotted-path update) and the local path
\* (full rewrite) both succeed and end with equal records, profile.bio and
\* profile.interests set, every other profile field and every other field
\* of the record as before; and every call that succeeds changes its store
\* in just that way and leaves the other store alone
C13_ProfileSameOnBoth ==
  [][/\ EqualRecords =>
          \A bio \in Bios, interests \in Interests :
            LET r == update_user_profile(remote, rprofile, local, lprofile, TRUE, FALSE, bio, interests)
                l == update_user_profile(remote, rprofile, local, lprofile, FALSE, FALSE, bio, interests)
            IN /\ r.res /\ l.res
               /\ r.remote = l.local /\ r.rprofile = l.lprofile
               /\ r.remote = remote
               /\ ProfileSet(rprofile, r.rprofile, bio, interests)
     /\ (plast'.op = "update_user_profile" /\ plast'.res) =>
          IF plast'.path = "remote"
          THEN /\ remote' = remote /\ local' = local /\ lprofile' = lprofile
               /\ ProfileSet(rprofile, rprofile', plast'.bio, plast'.interests)
          ELSE /\ remote' = remote /\ rprofile' = rprofile
               /\ local'.lists = load_local_data(local)
               /\ ProfileSet(IF local.exists THEN lprofile ELSE NoProfile, lprofile',
                             plast'.bio, plast'.interests)]_vars

\* update_user_profile has run on the local path after it had run on the
\* remote path, and the two records, equal before, are equal again, with the
\* bio and the interests set and the name kept
C13_Witness ==
  /\ plast.op = "update_user_profile" /\ plast.res /\ plast.path = "local"
  /\ EqualRecords
  /\ remote.lists["task_history"] # <<>>
  /\ rprofile.present /\ "name" \in DOMAIN rprofile.fields
  /\ "bio" \in DOMAIN rprofile.fields /\ rprofile.fields["bio"] = plast.bio
  /\ rprofile.fields["interests"] = plast.interests

(* --------------------------- claims: logout --------------------------- *)

\* the saves and the logout
NextLogout ==
  \/ SetAvailability /\ UNCHANGED <<otpVars, concVars, extVars>>
  \/ HandleSignup /\ UNCHANGED <<otpVars, concVars, extVars>>
  \/ SaveMoodEntry /\ UNCHANGED <<otpVars, concVars, extVars>>
  \/ SaveTaskEntry /\ UNCHANGED <<otpVars, concVars, extVars>>
  \/ SaveFocusEntry /\ UNCHANGED <<otpVars, concVars, extVars>>
  \/ HandleLogout /\ UNCHANGED <<otpVars, concVars, extVars>>

SpecLogout == Init /\ [][NextLogout]_vars

\* C27: logout does not destroy history: every entry of the user's remote
\* mood_history, focus_history and task_history before handle_logout is
\* still there after it
C27_LogoutKeepsHistory ==
  [][last'.op = "handle_logout" =>
       \A k \in DOMAIN SessionLists :
         \A e \in Range(RemoteList(k)) : e \in Range(Get(remote'.lists, k))]_vars

(* ------------------------ claims: deleted tasks ----------------------- *)

\* C24: a deleted task is never resurrected: after a delete_task that has
\* returned success on the remote, a sync_user_data leaves the remote task
\* list without a task of that id, also when the local file holds a copy
C24_NoResurrection ==
  [][(/\ last.op = "delete_task" /\ last.res /\ last.out = "remote"
      /\ last'.op = "sync_user_data")
       => \A t \in Range(Get(remote'.lists, "task_history")) : t.id # last.entry.id]_vars

(* ------------------------ claims: read your writes -------------------- *)

\* C25: read-your-writes across availability changes: after a save
\* operation has returned success, get_user_history without filter returns
\* a record whose list holds the entry, whatever the availability of the
\* remote is at the read
C25_ReadYourWrites ==
  (last.op \in SaveOps /\ last.res) =>
    \A avail \in BOOLEAN :
      Has(get_user_history(remote, local, avail, FALSE), last.k, last.entry)

(* ---------------------- claims: result of a save ---------------------- *)

PathOps == SaveOps \cup {"update_task_status", "delete_task"}

\* C23: no remote-down state is remembered across operations: the backend
\* an operation uses depends on the probe inside that operation alone, so
\* an operation issued while the remote is healthy goes to the remote, also
\* after an operation that fell back to local or failed
C23_NoRememberedOutage ==
  [][/\ last'.op \in PathOps => last'.out = (IF up THEN "remote" ELSE "local")
     /\ last'.op = "sync_user_data" => (last'.out = "unavailable" <=> ~up)]_vars

\* a save has gone to the remote while the local file holds an earlier
\* entry, saved there during an outage, that the remote does not have
C23_Witness ==
  /\ last.op \in SaveOps /\ last.avail /\ last.out = "remote" /\ last.res
  /\ \E k \in AllLists : \E e \in Range(LocalList(k)) :
       e.n < last.entry.n /\ ~Has(remote.lists, k, e)

(* --------------------------- history filter --------------------------- *)

NextFilter ==
  \/ FAdd /\ UNCHANGED <<remote, local, up, nextId, last, otpVars, concVars, healVars, profVars, snap>>
  \/ FFilter /\ UNCHANGED <<remote, local, up, nextId, last, otpVars, concVars, healVars, profVars, snap>>

SpecFilter == Init /\ [][NextFilter]_vars

(* --------------------------- claims: filter --------------------------- *)

\* a timestamp that denotes an instant, and the instant it denotes: a naive
\* reading is a UTC reading, a reading with an offset lies the offset before
\* the same reading in UTC
HasInstant(ts) == ts.form \in {"str", "dt"}
Instant(ts) == IF ts.aware THEN ts.wall - ts.off ELSE ts.wall

\* the positions of the entries of a list that lie in the window of w days
InWindow(list, w, at) ==
  {i \in 1..Len(list) :
     /\ HasInstant(list[i].timestamp)
     /\ Instant(list[i].timestamp) >= at - w * DayLen}

\* the j-th smallest of a set of positions
Nth(S, j) == CHOOSE i \in S : Cardinality({m \in S : m <= i}) = j

\* the record with every dated timestamp written anew, naive (as a string)
\* or with the offset o
Rewritten(data, naive, o) ==
  [k \in DOMAIN data |->
     [i \in 1..Len(data[k]) |->
        LET ts == data[k][i].timestamp
        IN IF ~HasInstant(ts) THEN data[k][i]
           ELSE [timestamp |-> IF naive THEN Naive("str", Instant(ts))
                               ELSE Aware("str", Instant(ts), o)]]]

Instants(list) == [i \in 1..Len(list) |-> Instant(list[i].timestamp)]

\* C11: _filter_history(record, days=w) returns, for each of mood_history,
\* focus_history and task_history, exactly the entries whose timestamp
\* instant is at or after now(UTC) minus w days, in their original order;
\* and the result is the same whether the timestamps are written naive or
\* with a UTC offset denoting the same instant
C11_WindowFilter ==
  fout.called =>
    \A k \in Range(FilterTypes) :
      LET in == InWindow(frec[k], fout.days, fnow)
          out == fout.data[k]
      IN /\ Len(out) = Cardinality(in)
         /\ \A j \in 1..Len(out) : out[j] = frec[k][Nth(in, j)]
         /\ \A o \in Offsets :
              /\ Instants(filter_history(Rewritten(frec, TRUE, o), fout.days, NoMoodFilter, fnow)[k])
                   = Instants(out)
              /\ Instants(filter_history(Rewritten(frec, FALSE, o), fout.days, NoMoodFilter, fnow)[k])
                   = Instants(out)

\* the filter has run with a window of 7 days over a list of two entries and
\* kept the first only: an entry exactly 7 days old, written with a UTC
\* offset that puts its wall-clock reading before the cutoff, ahead of a
\* naive entry older than 7 days
C11_Witness ==
  /\ fout.called /\ fout.days = 7
  /\ \E k \in Range(FilterTypes) :
       /\ Len(frec[k]) = 2 /\ Len(fout.data[k]) = 1
       /\ fout.data[k][1] = frec[k][1]
       /\ frec[k][1].timestamp.aware
       /\ Instant(frec[k][1].timestamp) = fnow - 7 * DayLen
       /\ frec[k][1].timestamp.wall < fnow - 7 * DayLen
       /\ HasInstant(frec[k][2].timestamp) /\ ~frec[k][2].timestamp.aware
       /\ Instant(frec[k][2].timestamp) < fnow - 7 * DayLen

\* C22: under a time window an entry whose timestamp is missing or
\* unparseable is left out of the filtered list and changes nothing else:
\* the output holds dated entries only and is the output for the record
\* without the undated entries
C22_UndatedLeftOut ==
  (fout.called /\ fout.days # 0) =>
    \A k \in Range(FilterTypes) :
      LET dated == SelectSeq(frec[k], LAMBDA e : HasInstant(e.timestamp))
      IN /\ \A j \in 1..Len(fout.data[k]) : HasInstant(fout.data[k][j].timestamp)
         /\ fout.data[k]
              = filter_history([frec EXCEPT ![k] = dated], fout.days, NoMoodFilter, fnow)[k]

\* the filter has run over a list that holds an entry without timestamp and
\* an entry with a broken one around an entry in the window, and kept that
\* entry alone
C22_Witness ==
  /\ fout.called /\ fout.days = 7
  /\ \E k \in Range(FilterTypes) :
       /\ Len(frec[k]) = 2
       /\ frec[k][1].timestamp \in {NoStamp, BadStamp}
       /\ HasInstant(frec[k][2].timestamp)
       /\ fout.data[k] = <<frec[k][2]>>

(* -------------------------- claims: mood filter ------------------------ *)

NextMood ==
  \/ MAdd /\ UNCHANGED <<remote, local, up, nextId, last, otpVars, concVars, healVars, profVars, snap>>
  \/ MFilter /\ UNCHANGED <<remote, local, up, nextId, last, otpVars, concVars, healVars, profVars, snap>>

SpecMood == Init /\ [][NextMood]_vars

\* the mood is one of those the filter names: the string, or a member of
\* the collection
Named(mood, mood_filter) ==
  IF mood_filter.kind = "list" THEN mood \in mood_filter.items
  ELSE mood = mood_filter.text

\* the mood filter has left focus_history and task_history as they were and
\* kept of mood_history the entries whose mood the filter names, in order
OnlyMoods ==
  /\ fout.data["focus_history"] = frec["focus_history"]
  /\ fout.data["task_history"] = frec["task_history"]
  /\ LET in == {i \in 1..Len(frec["mood_history"]) :
                  Named(frec["mood_history"][i].mood, fout.mood_filter)}
         out == fout.data["mood_history"]
     IN /\ Len(out) = Cardinality(in)
        /\ \A j \in 1..Len(out) : out[j] = frec["mood_history"][Nth(in, j)]

\* C21 as stated: for any record and any mood filter M,
\* _filter_history(record, None, M) returns focus_history and task_history
\* as they were and as mood_history exactly the entries whose mood is in M,
\* in their order
C21_AnyMoodFilter ==
  (fout.called /\ fout.mood_filter.kind # "none") => OnlyMoods

\* C21 amended: so it does for any non-empty mood filter M (an empty one is
\* no filter: the record comes back as it was)
C21_MoodFilterOnly ==
  /\ (fout.called /\ Truthy(fout.mood_filter)) => OnlyMoods
  /\ (fout.called /\ fout.mood_filter.kind # "none" /\ ~Truthy(fout.mood_filter))
       => fout.data = frec

\* a filter naming one mood has kept the second of two mood entries
C21_Witness ==
  /\ fout.called /\ Truthy(fout.mood_filter)
  /\ Len(frec["mood_history"]) = 2
  /\ frec["mood_history"][1].mood # frec["mood_history"][2].mood
  /\ fout.data["mood_history"] = <<frec["mood_history"][2]>>

(* ---------------------- claims: fresh activity ------------------------ *)

\* the pages storing entries, time passing, and the history page filtering
NextFresh ==
  \/ PageSave /\ UNCHANGED <<remote, local, up, nextId, last, otpVars, concVars, healVars, profVars, snap>>
  \/ PageTick /\ UNCHANGED <<remote, local, up, nextId, last, otpVars, concVars, healVars, profVars, snap>>
  \/ FFilter /\ UNCHANGED <<remote, local, up, nextId, last, otpVars, concVars, healVars, profVars, snap>>

SpecFresh == Init /\ [][NextFresh]_vars

\* C30: an entry a page has stored through save_focus_entry, save_task_entry
\* or save_mood_entry is in the list _filter_history(record, days=w) returns
\* whenever the filter runs less than w days after the save
C30_FreshShown ==
  fout.called =>
    \A k \in Range(FilterTypes) :
      \A i \in 1..Len(frec[k]) :
        (fnow - frec[k][i].saved < fout.days * DayLen)
          => frec[k][i] \in Range(fout.data[k])

====
